---- MODULE Spec2Model ----
(***************************************************************************)
(* The POST /classify handler of src/src/classifier/classifier.py as a     *)
(* state machine.  One behaviour is one request against one process        *)
(* configuration.  The handler suspends only while a backend call is in    *)
(* flight, so there is one action for each way into the handler and one    *)
(* for each call site's reply; everything the code does synchronously      *)
(* between two suspension points (exception handling, the heuristic        *)
(* fallback, building the response) is part of the same action.            *)
(*                                                                         *)
(* Confidences are in hundredths (0.7 is 70).  A text is abstracted to     *)
(* what the code reads of it: whether it is the empty string and how many  *)
(* whitespace-separated words text.split() yields.                         *)
(***************************************************************************)
EXTENDS Integers, Sequences, FiniteSets, TLC

VARIABLES
    local_client,       \* classifier.py:18-22   TRUE iff LOCAL_VLLM_BASE is set
    anthropic_client,   \* classifier.py:19-25   TRUE iff ANTHROPIC_API_KEY is set
    USE_LOCAL_FIRST,    \* classifier.py:16
    request,            \* ClassifyRequest: text, force_local, force_api
    pc,                 \* "start", a call site while its call is in flight, "done"
    result,             \* classify's local variable result (None or a dict)
    model_used,         \* classify's local variable model_used
    fallback_used,      \* classify's local variable fallback_used
    response,           \* what the caller receives
    resultFrom,         \* history: which producer's output result holds
    branch,             \* history: the policy branch the request took
    localCalls,         \* history: outcome of each classify_with_local call
    apiCalls,           \* history: outcome of each classify_with_api call
    decoded,            \* history: object the latest reply decoded to, before defaults
    embed_model,        \* embeddings.py:32     TRUE iff _model is loaded
    embed_req,          \* EmbedBatchRequest: texts, max_length, batch_size
    embed_pc,           \* "idle", "start", "done": position of embed_batch
    embed_response,     \* what the caller of /embed/batch receives
    embed_encodes       \* history: number of _model.encode calls

vars == <<local_client, anthropic_client, USE_LOCAL_FIRST, request, pc, result,
          model_used, fallback_used, response, resultFrom, branch, localCalls,
          apiCalls, decoded, embed_model, embed_req, embed_pc, embed_response,
          embed_encodes>>

\* The state of the classifier process and that of the embeddings process.
classifyVars == <<local_client, anthropic_client, USE_LOCAL_FIRST, request, pc,
                  result, model_used, fallback_used, response, resultFrom, branch,
                  localCalls, apiCalls, decoded>>

embedVars == <<embed_model, embed_req, embed_pc, embed_response, embed_encodes>>

---------------------------------------------------------------------------
(* Bounds of the model *)

\* Longest tag list a backend reply carries.
MaxTagLen == 8
\* Largest word count of a request text.
MaxWords == 1001

(* Constants of the program *)

LOCAL_MODEL == "Qwen/Qwen2.5-14B-Instruct-AWQ"
API_MODEL == "claude-3-5-sonnet-20241022"
HEURISTIC_MODEL == "heuristic"
\* result["confidence"] < 0.7
ESCALATION_THRESHOLD == 70
\* result.setdefault("confidence", 0.5)
DEFAULT_CONFIDENCE == 50
\* heuristic_fallback: "confidence": 0.3
HEURISTIC_CONFIDENCE == 30
\* heuristic_fallback: tags[:7]
TAG_CAP == 7
\* heuristic_fallback: word_count < 100
SHORT_BELOW == 100
\* heuristic_fallback: word_count > 1000
LONG_ABOVE == 1000
\* heuristic_fallback: words[:min(50, word_count)]
SUMMARY_WORDS == 50

---------------------------------------------------------------------------
(* JSON values.  Each key of a decoded object has its own value shape; the *)
(* kind "null" stands for a JSON null, which none of the three fields of   *)
(* ClassifyResponse accepts.                                               *)

Keys == {"tags", "summary", "confidence"}

ListTags(items) == [kind |-> "list", items |-> items]
NullTags == [kind |-> "null", items |-> <<>>]
StrVal(words, ellipsis) == [kind |-> "str", words |-> words, ellipsis |-> ellipsis]
NullStr == [kind |-> "null", words |-> 0, ellipsis |-> FALSE]
NumVal(n) == [kind |-> "num", n |-> n]
NullNum == [kind |-> "null", n |-> 0]

None == [none |-> TRUE]

Min(a, b) == IF a < b THEN a ELSE b

TagSeq(n) == [i \in 1..n |-> "tag"]

TagLens == {0, 1, TAG_CAP, MaxTagLen}

ValuesOf(k) ==
    IF k = "tags" THEN {ListTags(TagSeq(n)) : n \in TagLens} \cup {NullTags}
    ELSE IF k = "summary" THEN {StrVal(3, FALSE), NullStr}
    ELSE {NumVal(c) : c \in {-10, 69, 70, 100, 150}} \cup {NullNum}

\* The JSON objects a backend may reply with: any subset of the three keys.
Objects ==
    UNION { { o \in [K -> UNION {ValuesOf(k) : k \in K}] :
                \A k \in K : o[k] \in ValuesOf(k) } : K \in SUBSET Keys }

\* What comes back from the network: a transport failure, or a text that
\* wraps a payload (a JSON object, some other JSON value, or no JSON at all).
Wraps == {"bare", "fenced", "fenced_trailing", "prose"}

Replies ==
    {[kind |-> "error"]}
    \cup {[kind |-> "content", wrap |-> w, payload |-> "garbage"] : w \in Wraps}
    \cup {[kind |-> "content", wrap |-> w, payload |-> "array"] : w \in Wraps}
    \cup {[kind |-> "content", wrap |-> w, payload |-> "object", obj |-> o] :
            w \in Wraps, o \in Objects}

Texts ==
    {[empty |-> TRUE, words |-> 0], [empty |-> FALSE, words |-> 0]}
    \cup {[empty |-> FALSE, words |-> n] : n \in {1, SHORT_BELOW, MaxWords}}

---------------------------------------------------------------------------
(* Pure functions of classifier.py *)

Ok(v) == [ok |-> TRUE, value |-> v]
Raised(e) == [ok |-> FALSE, exc |-> e]

\* parse_json_response: the text that reaches json.loads is the payload alone
\* when the fence regex finds a brace-delimited block (line 61), when the text
\* is one fenced block whose markers lines 65-66 strip, or when there was no
\* wrapping at all; otherwise stray text is left and decoding fails.
parse_json_response(content) ==
    LET json_match == /\ content.wrap \in {"fenced", "fenced_trailing"}
                      /\ content.payload = "object"
        stripped == content.wrap \in {"bare", "fenced"}
    IN  IF (json_match \/ stripped) /\ content.payload # "garbage"
        THEN Ok(IF content.payload = "object"
                THEN [type |-> "object", obj |-> content.obj]
                ELSE [type |-> "array"])
        ELSE Raised("ValueError")

\* heuristic_fallback with <= for < in the test for "short".
heuristic_fallback_ShortInclusive(text) ==
    LET word_count == text.words
        base == <<"uncategorized", "transcript", "unclassified">>
        tags == IF word_count <= SHORT_BELOW THEN Append(base, "short")
                ELSE IF word_count > LONG_ABOVE THEN Append(base, "long")
                ELSE base
    IN  [tags |-> ListTags(SubSeq(tags, 1, Min(TAG_CAP, Len(tags)))),
         summary |-> StrVal(Min(SUMMARY_WORDS, word_count), word_count > SUMMARY_WORDS),
         confidence |-> NumVal(HEURISTIC_CONFIDENCE)]

\* heuristic_fallback
heuristic_fallback(text) ==
    LET word_count == text.words
        base == <<"uncategorized", "transcript", "unclassified">>
        tags == IF word_count < SHORT_BELOW THEN Append(base, "short")
                ELSE IF word_count > LONG_ABOVE THEN Append(base, "long")
                ELSE base
    IN  [tags |-> ListTags(SubSeq(tags, 1, Min(TAG_CAP, Len(tags)))),
         summary |-> StrVal(Min(SUMMARY_WORDS, word_count), word_count > SUMMARY_WORDS),
         confidence |-> NumVal(HEURISTIC_CONFIDENCE)]

\* dict.setdefault
setdefault(d, k, v) == IF k \in DOMAIN d THEN d ELSE [x \in DOMAIN d \cup {k} |-> IF x = k THEN v ELSE d[x]]

\* SetDefaults with 1.0 as the default confidence.
SetDefaults_ConfidentByDefault(d) ==
    setdefault(setdefault(setdefault(d, "tags", ListTags(<<>>)),
                          "summary", StrVal(0, FALSE)),
               "confidence", NumVal(100))

\* The three result.setdefault lines of both adapters.
SetDefaults(d) ==
    setdefault(setdefault(setdefault(d, "tags", ListTags(<<>>)),
                          "summary", StrVal(0, FALSE)),
               "confidence", NumVal(DEFAULT_CONFIDENCE))

\* What an adapter makes of the network's reply, lines 112-119 and 136-143:
\* a transport error propagates; json decoding may raise ValueError; setdefault
\* on a decoded value that is no dict raises AttributeError.
AdapterReply(reply) ==
    IF reply.kind = "error" THEN Raised("TransportError")
    ELSE LET parsed == parse_json_response(reply)
         IN  IF ~parsed.ok THEN parsed
             ELSE IF parsed.value.type # "object" THEN Raised("AttributeError")
             ELSE Ok(SetDefaults(parsed.value.obj))

classify_with_local_reply(reply) == AdapterReply(reply)

classify_with_api_reply(reply) == AdapterReply(reply)

\* The object the reply decoded to before defaults were filled, or None.
DecodedOf(reply) ==
    IF reply.kind = "content" /\ parse_json_response(reply).ok /\ reply.payload = "object"
    THEN reply.obj ELSE None

\* ClassifyResponse(...): pydantic validates the field types; a dict value of
\* the wrong type makes the constructor raise outside classify's try block,
\* which the framework answers with 500.
WellTyped(r) ==
    /\ r["tags"].kind = "list"
    /\ r["summary"].kind = "str"
    /\ r["confidence"].kind = "num"

ClassifyResponse(r, model, fallback) ==
    IF WellTyped(r)
    THEN [status |-> 200, tags |-> r["tags"].items, summary |-> r["summary"],
          confidence |-> r["confidence"].n, model |-> model, fallback_used |-> fallback]
    ELSE [status |-> 500]

---------------------------------------------------------------------------
(* The handler's frame as one record, so that the synchronous parts of      *)
(* classify compose as functions from frame to frame.                       *)

Cur ==
    [pc |-> pc, result |-> result, model_used |-> model_used,
     fallback_used |-> fallback_used, response |-> response,
     resultFrom |-> resultFrom, branch |-> branch, localCalls |-> localCalls,
     apiCalls |-> apiCalls, decoded |-> decoded]

Commit(s) ==
    /\ pc' = s.pc
    /\ result' = s.result
    /\ model_used' = s.model_used
    /\ fallback_used' = s.fallback_used
    /\ response' = s.response
    /\ resultFrom' = s.resultFrom
    /\ branch' = s.branch
    /\ localCalls' = s.localCalls
    /\ apiCalls' = s.apiCalls
    /\ decoded' = s.decoded
    /\ UNCHANGED <<local_client, anthropic_client, USE_LOCAL_FIRST, request>>
    /\ UNCHANGED embedVars

\* One entry of a call history: the call site, and how the call ended.
Call(site, out) ==
    [site |-> site,
     outcome |-> IF out.ok THEN "returned" ELSE "raised",
     exc |-> IF out.ok THEN "none" ELSE out.exc,
     confidence |-> IF out.ok THEN out.value["confidence"] ELSE NullNum,
     typed |-> out.ok /\ WellTyped(out.value)]

Pending(site) ==
    [site |-> site, outcome |-> "pending", exc |-> "none", confidence |-> NullNum,
     typed |-> FALSE]

SetLast(calls, c) == [calls EXCEPT ![Len(calls)] = c]

\* return ClassifyResponse(...), lines 212-218
Respond(s) ==
    [s EXCEPT !.pc = "done",
              !.response = ClassifyResponse(s.result, s.model_used, s.fallback_used)]

\* OuterExcept without fallback_used = True.
OuterExcept_NoFallbackFlag(s) ==
    Respond([s EXCEPT !.result = heuristic_fallback(request.text),
                      !.resultFrom = "heuristic",
                      !.model_used = HEURISTIC_MODEL])

\* OuterExcept without model_used = "heuristic".
OuterExcept_KeepsModel(s) ==
    Respond([s EXCEPT !.result = heuristic_fallback(request.text),
                      !.resultFrom = "heuristic",
                      !.fallback_used = TRUE])

\* except Exception of the outer try, lines 207-210, then the return
OuterExcept(s) ==
    Respond([s EXCEPT !.result = heuristic_fallback(request.text),
                      !.resultFrom = "heuristic",
                      !.model_used = HEURISTIC_MODEL,
                      !.fallback_used = TRUE])

\* Entry of classify_with_api up to the network call, lines 122-134: raises
\* RuntimeError without a client, otherwise the call is in flight at `site`.
classify_with_api(s, site) ==
    IF anthropic_client
    THEN [raised |-> FALSE,
          s |-> [s EXCEPT !.pc = site,
                          !.apiCalls = Append(@, Pending(site))]]
    ELSE [raised |-> TRUE,
          s |-> [s EXCEPT !.apiCalls = Append(@, Call(site, Raised("RuntimeError")))]]

\* Entry of classify_with_local up to the network call, lines 97-110.
classify_with_local(s, site) ==
    IF local_client
    THEN [raised |-> FALSE,
          s |-> [s EXCEPT !.pc = site,
                          !.localCalls = Append(@, Pending(site))]]
    ELSE [raised |-> TRUE,
          s |-> [s EXCEPT !.localCalls = Append(@, Call(site, Raised("RuntimeError")))]]

\* InnerExcept with the remote hop left out: a local failure goes straight to
\* the outer handler.
InnerExcept_NoRemote(s) == OuterExcept(s)

\* except Exception of the inner try, lines 192-198: one call of the remote
\* adapter if there is a client, else re-raise into the outer handler.  An
\* exception of the call at line 194 is raised inside the outer try.
InnerExcept(s) ==
    IF anthropic_client
    THEN LET c == classify_with_api(s, "api194")
         IN  IF c.raised THEN OuterExcept(c.s) ELSE c.s
    ELSE OuterExcept(s)

---------------------------------------------------------------------------
(* What classify does with an adapter's outcome at each call site, up to    *)
(* the next backend call or the response.  `out` is Ok(dict) or Raised(e).  *)

\* line 178-179, in the outer try
AfterApi178(s, out) ==
    IF out.ok
    THEN Respond([s EXCEPT !.result = out.value, !.resultFrom = "api",
                           !.model_used = API_MODEL])
    ELSE OuterExcept(s)

\* line 181-182, in the outer try
AfterLocal181(s, out) ==
    IF out.ok
    THEN Respond([s EXCEPT !.result = out.value, !.resultFrom = "local",
                           !.model_used = LOCAL_MODEL])
    ELSE OuterExcept(s)

\* AfterLocal185 escalating at the threshold itself (<= for <).
AfterLocal185_EscalateAtThreshold(s, out) ==
    IF out.ok
    THEN LET s1 == [s EXCEPT !.result = out.value, !.resultFrom = "local",
                             !.model_used = LOCAL_MODEL]
             conf == out.value["confidence"]
         IN  IF conf.kind # "num" THEN InnerExcept(s1)
             ELSE IF conf.n <= ESCALATION_THRESHOLD /\ anthropic_client
             THEN LET c == classify_with_api(s1, "api189")
                  IN  IF c.raised THEN InnerExcept(c.s) ELSE c.s
             ELSE Respond(s1)
    ELSE InnerExcept(s)

\* AfterLocal185 escalating a low confidence whether or not a remote client
\* exists (line 188 without `and anthropic_client`).
AfterLocal185_EscalateWithoutRemote(s, out) ==
    IF out.ok
    THEN LET s1 == [s EXCEPT !.result = out.value, !.resultFrom = "local",
                             !.model_used = LOCAL_MODEL]
             conf == out.value["confidence"]
         IN  IF conf.kind # "num" THEN InnerExcept(s1)
             ELSE IF conf.n < ESCALATION_THRESHOLD
             THEN LET c == classify_with_api(s1, "api189")
                  IN  IF c.raised THEN InnerExcept(c.s) ELSE c.s
             ELSE Respond(s1)
    ELSE InnerExcept(s)

\* lines 185-191, in the inner try: comparing a null confidence with 0.7
\* raises TypeError there.
AfterLocal185(s, out) ==
    IF out.ok
    THEN LET s1 == [s EXCEPT !.result = out.value, !.resultFrom = "local",
                             !.model_used = LOCAL_MODEL]
             conf == out.value["confidence"]
         IN  IF conf.kind # "num" THEN InnerExcept(s1)
             ELSE IF conf.n < ESCALATION_THRESHOLD /\ anthropic_client
             THEN LET c == classify_with_api(s1, "api189")
                  IN  IF c.raised THEN InnerExcept(c.s) ELSE c.s
             ELSE Respond(s1)
    ELSE InnerExcept(s)

\* AfterApi189 without fallback_used = True.
AfterApi189_NoFallbackFlag(s, out) ==
    IF out.ok
    THEN Respond([s EXCEPT !.result = out.value, !.resultFrom = "api",
                           !.model_used = API_MODEL])
    ELSE InnerExcept(s)

\* lines 189-191, in the inner try
AfterApi189(s, out) ==
    IF out.ok
    THEN Respond([s EXCEPT !.result = out.value, !.resultFrom = "api",
                           !.model_used = API_MODEL, !.fallback_used = TRUE])
    ELSE InnerExcept(s)

\* AfterApi194 retrying the remote call until it succeeds.
AfterApi194_RetryUntilSuccess(s, out) ==
    IF out.ok
    THEN Respond([s EXCEPT !.result = out.value, !.resultFrom = "api",
                           !.model_used = API_MODEL, !.fallback_used = TRUE])
    ELSE s

\* AfterApi194 without fallback_used = True.
AfterApi194_NoFallbackFlag(s, out) ==
    IF out.ok
    THEN Respond([s EXCEPT !.result = out.value, !.resultFrom = "api",
                           !.model_used = API_MODEL])
    ELSE OuterExcept(s)

\* lines 194-196, in the inner handler, itself inside the outer try
AfterApi194(s, out) ==
    IF out.ok
    THEN Respond([s EXCEPT !.result = out.value, !.resultFrom = "api",
                           !.model_used = API_MODEL, !.fallback_used = TRUE])
    ELSE OuterExcept(s)

\* lines 200-201, in the outer try
AfterApi200(s, out) ==
    IF out.ok
    THEN Respond([s EXCEPT !.result = out.value, !.resultFrom = "api",
                           !.model_used = API_MODEL])
    ELSE OuterExcept(s)

\* raise HTTPException(status_code=503), lines 203-206: the raise is inside
\* the outer try and HTTPException is a subclass of Exception, so the handler
\* at line 207 catches it.
HTTPExceptionIsException == TRUE

RaiseNoBackend(s) ==
    IF HTTPExceptionIsException
    THEN OuterExcept(s)
    ELSE [s EXCEPT !.pc = "done", !.response = [status |-> 503]]

---------------------------------------------------------------------------
(* Actions *)

\* Blank without the strip(): only the empty string is rejected.
Blank_EmptyOnly(text) == text.empty

\* not request.text or not request.text.strip(), line 169
Blank(text) == text.empty \/ text.words = 0

\* lines 172-174
Frame0(b) ==
    [Cur EXCEPT !.fallback_used = FALSE, !.model_used = "none", !.result = None,
                !.branch = b]

\* The embeddings service is another process: while the classifier is
\* followed it has no request.
EmbedIdle ==
    /\ embed_model = FALSE
    /\ embed_req = None
    /\ embed_pc = "idle"
    /\ embed_response = None
    /\ embed_encodes = 0

Init ==
    /\ EmbedIdle
    /\ local_client \in BOOLEAN
    /\ anthropic_client \in BOOLEAN
    /\ USE_LOCAL_FIRST \in BOOLEAN
    /\ request \in [text : Texts, force_local : BOOLEAN, force_api : BOOLEAN]
    /\ pc = "start"
    /\ result = None
    /\ model_used = "none"
    /\ fallback_used = FALSE
    /\ response = None
    /\ resultFrom = "none"
    /\ branch = "none"
    /\ localCalls = <<>>
    /\ apiCalls = <<>>
    /\ decoded = None

\* lines 169-170
RejectBlank ==
    /\ pc = "start"
    /\ Blank(request.text)
    /\ Commit([Cur EXCEPT !.pc = "done", !.branch = "rejected",
                          !.response = [status |-> 400]])

\* lines 177-179
ForceApi ==
    /\ pc = "start"
    /\ ~Blank(request.text)
    /\ request.force_api
    /\ LET c == classify_with_api(Frame0("force_api"), "api178")
       IN  Commit(IF c.raised THEN OuterExcept(c.s) ELSE c.s)

\* ForceLocal tested before force_api: the local flag takes precedence.
ForceLocal_TakesPrecedence ==
    /\ pc = "start"
    /\ ~Blank(request.text)
    /\ request.force_local
    /\ LET c == classify_with_local(Frame0("force_local"), "local181")
       IN  Commit(IF c.raised THEN OuterExcept(c.s) ELSE c.s)

\* lines 180-182
ForceLocal ==
    /\ pc = "start"
    /\ ~Blank(request.text)
    /\ ~request.force_api
    /\ request.force_local
    /\ LET c == classify_with_local(Frame0("force_local"), "local181")
       IN  Commit(IF c.raised THEN OuterExcept(c.s) ELSE c.s)

\* LocalFirst dispatching to both backends at once instead of waiting for the
\* local outcome.
LocalFirst_Speculative ==
    /\ pc = "start"
    /\ ~Blank(request.text)
    /\ ~request.force_api
    /\ ~request.force_local
    /\ USE_LOCAL_FIRST /\ local_client
    /\ LET c == classify_with_local(Frame0("local_first"), "local185")
       IN  Commit(IF c.raised THEN InnerExcept(c.s)
                  ELSE IF anthropic_client
                  THEN [c.s EXCEPT !.apiCalls = Append(@, Pending("api189"))]
                  ELSE c.s)

\* lines 183-185
LocalFirst ==
    /\ pc = "start"
    /\ ~Blank(request.text)
    /\ ~request.force_api
    /\ ~request.force_local
    /\ USE_LOCAL_FIRST /\ local_client
    /\ LET c == classify_with_local(Frame0("local_first"), "local185")
       IN  Commit(IF c.raised THEN InnerExcept(c.s) ELSE c.s)

\* lines 199-201
ApiDirect ==
    /\ pc = "start"
    /\ ~Blank(request.text)
    /\ ~request.force_api
    /\ ~request.force_local
    /\ ~(USE_LOCAL_FIRST /\ local_client)
    /\ anthropic_client
    /\ LET c == classify_with_api(Frame0("api_direct"), "api200")
       IN  Commit(IF c.raised THEN OuterExcept(c.s) ELSE c.s)

\* lines 202-206
NoBackend ==
    /\ pc = "start"
    /\ ~Blank(request.text)
    /\ ~request.force_api
    /\ ~request.force_local
    /\ ~(USE_LOCAL_FIRST /\ local_client)
    /\ ~anthropic_client
    /\ Commit(RaiseNoBackend(Frame0("no_backend")))

\* The frame once the call in flight has come back with `out`.
Landed(calls, out, reply) ==
    [Cur EXCEPT ![calls] = SetLast(@, Call(pc, out)),
                !.decoded = DecodedOf(reply)]

LocalReplies181 ==
    /\ pc = "local181"
    /\ \E reply \in Replies :
         LET out == classify_with_local_reply(reply)
         IN  Commit(AfterLocal181(Landed("localCalls", out, reply), out))

LocalReplies185 ==
    /\ pc = "local185"
    /\ \E reply \in Replies :
         LET out == classify_with_local_reply(reply)
         IN  Commit(AfterLocal185(Landed("localCalls", out, reply), out))

ApiReplies178 ==
    /\ pc = "api178"
    /\ \E reply \in Replies :
         LET out == classify_with_api_reply(reply)
         IN  Commit(AfterApi178(Landed("apiCalls", out, reply), out))

ApiReplies189 ==
    /\ pc = "api189"
    /\ \E reply \in Replies :
         LET out == classify_with_api_reply(reply)
         IN  Commit(AfterApi189(Landed("apiCalls", out, reply), out))

ApiReplies194 ==
    /\ pc = "api194"
    /\ \E reply \in Replies :
         LET out == classify_with_api_reply(reply)
         IN  Commit(AfterApi194(Landed("apiCalls", out, reply), out))

ApiReplies200 ==
    /\ pc = "api200"
    /\ \E reply \in Replies :
         LET out == classify_with_api_reply(reply)
         IN  Commit(AfterApi200(Landed("apiCalls", out, reply), out))

\* The shape of the state.
Sites == {"api178", "local181", "local185", "api189", "api194", "api200"}

CallEntries ==
    [site : Sites, outcome : {"pending", "raised", "returned"},
     exc : {"none", "RuntimeError", "TransportError", "ValueError", "AttributeError"},
     confidence : ValuesOf("confidence") \cup {NumVal(DEFAULT_CONFIDENCE)},
     typed : BOOLEAN]

TypeOK ==
    /\ local_client \in BOOLEAN
    /\ anthropic_client \in BOOLEAN
    /\ USE_LOCAL_FIRST \in BOOLEAN
    /\ request \in [text : Texts, force_local : BOOLEAN, force_api : BOOLEAN]
    /\ pc \in {"start", "done"} \cup Sites
    /\ result = None \/ DOMAIN result = Keys
    /\ model_used \in {"none", LOCAL_MODEL, API_MODEL, HEURISTIC_MODEL}
    /\ fallback_used \in BOOLEAN
    /\ (pc = "done") = (response # None)
    /\ pc = "done" => response.status \in {200, 400, 500}
    /\ resultFrom \in {"none", "local", "api", "heuristic"}
    /\ branch \in {"none", "rejected", "force_api", "force_local", "local_first",
                   "api_direct", "no_backend"}
    /\ \A i \in 1..Len(localCalls) : localCalls[i] \in CallEntries
    /\ \A i \in 1..Len(apiCalls) : apiCalls[i] \in CallEntries
    /\ decoded = None \/ decoded \in Objects
    /\ EmbedIdle

Next ==
    \/ RejectBlank
    \/ ForceApi
    \/ ForceLocal
    \/ LocalFirst
    \/ ApiDirect
    \/ NoBackend
    \/ LocalReplies181
    \/ LocalReplies185
    \/ ApiReplies178
    \/ ApiReplies189
    \/ ApiReplies194
    \/ ApiReplies200

Spec == Init /\ [][Next]_vars

\* The server runs the handler, and every backend invocation eventually
\* returns or fails.
FairSpec == Spec /\ WF_vars(Next)

---------------------------------------------------------------------------
(* heuristic_fallback on its own: applied to a text of every word count up  *)
(* to MaxWords, the empty and the whitespace-only text included.            *)

AllTexts ==
    {[empty |-> TRUE, words |-> 0]}
    \cup {[empty |-> FALSE, words |-> n] : n \in 0..MaxWords}

\* No classify request is being handled.
ClassifyIdle ==
    /\ local_client = FALSE
    /\ anthropic_client = FALSE
    /\ USE_LOCAL_FIRST = FALSE
    /\ model_used = "none"
    /\ fallback_used = FALSE
    /\ response = None
    /\ branch = "none"
    /\ localCalls = <<>>
    /\ apiCalls = <<>>
    /\ decoded = None

InitHeuristic ==
    /\ EmbedIdle
    /\ ClassifyIdle
    /\ request \in [text : AllTexts, force_local : {FALSE}, force_api : {FALSE}]
    /\ pc = "start"
    /\ result = None
    /\ resultFrom = "none"

ApplyHeuristic ==
    /\ pc = "start"
    /\ result' = heuristic_fallback(request.text)
    /\ resultFrom' = "heuristic"
    /\ pc' = "done"
    /\ UNCHANGED <<local_client, anthropic_client, USE_LOCAL_FIRST, request,
                   model_used, fallback_used, response, branch, localCalls,
                   apiCalls, decoded>>
    /\ UNCHANGED embedVars

NextHeuristic == ApplyHeuristic

SpecHeuristic == InitHeuristic /\ [][NextHeuristic]_vars

---------------------------------------------------------------------------
(* The POST /embed/batch handler of src/src/embeddings/embeddings.py *)

\* Longest texts list of a request.
MaxTexts == 33

\* Field(le=8192) of max_length
MAX_LENGTH_LE == 8192
\* Field(ge=1, le=32) of batch_size
BATCH_SIZE_GE == 1
BATCH_SIZE_LE == 32
\* The largest texts list the service is to accept (test_oversized_batch).
TEXTS_LIMIT == 32
EMBED_MODEL_NAME == "BAAI/bge-m3"

\* Optional[int]
NoInt == [none |-> TRUE, v |-> 0]
SomeInt(v) == [none |-> FALSE, v |-> v]

\* A texts list of n strings, ordinary ones but for the one at position p,
\* which is the empty string or whitespace only (p = 0: none).
TextList(n, p, k) == [i \in 1..n |-> IF i = p THEN k ELSE "text"]

EmbedTexts ==
    {TextList(n, p, k) : n \in {0, 1, 2, TEXTS_LIMIT, MaxTexts},
                         p \in {0, 1, 2, MaxTexts}, k \in {"empty", "blank"}}

EmbedBatchRequests ==
    [texts : EmbedTexts,
     max_length : {NoInt, SomeInt(2048), SomeInt(MAX_LENGTH_LE), SomeInt(MAX_LENGTH_LE + 1)},
     batch_size : {NoInt, SomeInt(BATCH_SIZE_GE - 1), SomeInt(8), SomeInt(BATCH_SIZE_LE),
                   SomeInt(BATCH_SIZE_LE + 1)}]

\* pydantic's validation of EmbedBatchRequest, lines 14-17: texts is any list
\* of strings; only max_length and batch_size are constrained.
ValidEmbedBatchRequest(req) ==
    /\ req.max_length.none \/ req.max_length.v <= MAX_LENGTH_LE
    /\ req.batch_size.none
       \/ (BATCH_SIZE_GE <= req.batch_size.v /\ req.batch_size.v <= BATCH_SIZE_LE)

InitEmbed ==
    /\ ClassifyIdle
    /\ request = [text |-> [empty |-> TRUE, words |-> 0], force_local |-> FALSE,
                  force_api |-> FALSE]
    /\ pc = "idle"
    /\ result = None
    /\ resultFrom = "none"
    /\ embed_model = FALSE
    /\ embed_req \in EmbedBatchRequests
    /\ embed_pc = "start"
    /\ embed_response = None
    /\ embed_encodes = 0

\* load_model, lines 35-39
LoadModel ==
    /\ ~embed_model
    /\ embed_model' = TRUE
    /\ UNCHANGED <<embed_req, embed_pc, embed_response, embed_encodes>>
    /\ UNCHANGED classifyVars

\* The framework rejects a body that fails the request model before the
\* handler runs.
EmbedBatchInvalid ==
    /\ embed_pc = "start"
    /\ ~ValidEmbedBatchRequest(embed_req)
    /\ embed_pc' = "done"
    /\ embed_response' = [status |-> 422]
    /\ UNCHANGED <<embed_model, embed_req, embed_encodes>>
    /\ UNCHANGED classifyVars

\* lines 69-70
EmbedBatchNotLoaded ==
    /\ embed_pc = "start"
    /\ ValidEmbedBatchRequest(embed_req)
    /\ ~embed_model
    /\ embed_pc' = "done"
    /\ embed_response' = [status |-> 503]
    /\ UNCHANGED <<embed_model, embed_req, embed_encodes>>
    /\ UNCHANGED classifyVars

\* lines 71-86: _model.encode is called with req.texts as they are; it returns
\* one vector per text or raises, and any exception becomes a 500.
EmbedBatchEncode ==
    /\ embed_pc = "start"
    /\ ValidEmbedBatchRequest(embed_req)
    /\ embed_model
    /\ embed_encodes' = embed_encodes + 1
    /\ embed_pc' = "done"
    /\ \E encoded \in BOOLEAN :
         embed_response' =
             IF encoded
             THEN [status |-> 200, embeddings |-> Len(embed_req.texts),
                   model |-> EMBED_MODEL_NAME]
             ELSE [status |-> 500]
    /\ UNCHANGED <<embed_model, embed_req>>
    /\ UNCHANGED classifyVars

NextEmbed ==
    \/ LoadModel
    \/ EmbedBatchInvalid
    \/ EmbedBatchNotLoaded
    \/ EmbedBatchEncode

SpecEmbed == InitEmbed /\ [][NextEmbed]_vars

---------------------------------------------------------------------------
(* Vocabulary of the properties *)

Done == pc = "done"
NonBlank == ~Blank(request.text)
NoForce == ~request.force_api /\ ~request.force_local
Last(calls) == calls[Len(calls)]

\* A call succeeded when the adapter handed back a ClassificationResult: a
\* dict whose three fields have the types of the result.  Anything else (no
\* client, transport error, undecodable or ill-shaped reply) is a failure.
Succeeded(c) == c.outcome = "returned" /\ c.typed
Failed(c) == c.outcome = "raised" \/ (c.outcome = "returned" /\ ~c.typed)

\* The caller got a 200 made of r's three fields, attributed to model m.
ResponseIs(r, m, f) ==
    response = [status |-> 200, tags |-> r["tags"].items, summary |-> r["summary"],
                confidence |-> r["confidence"].n, model |-> m, fallback_used |-> f]

\* result holds what the latest backend reply decoded to.
FromLatestReply ==
    /\ DOMAIN decoded \subseteq Keys
    /\ \A k \in DOMAIN decoded : result[k] = decoded[k]

\* The last backend call of the request, remote calls coming after local ones.
FinalCall == IF apiCalls # <<>> THEN Last(apiCalls) ELSE Last(localCalls)

NoBackendBranch ==
    /\ NonBlank /\ NoForce
    /\ ~anthropic_client
    /\ (~local_client \/ ~USE_LOCAL_FIRST)

LocalFirstBranch ==
    /\ NonBlank /\ NoForce
    /\ USE_LOCAL_FIRST /\ local_client

---------------------------------------------------------------------------
(* Properties *)

\* C1: a non-blank request without force flags that reaches the no-backend
\* branch ends in the service-unavailable (503) condition: no backend is
\* invoked and the heuristic result is not substituted.
C1_NoBackendIs503 ==
    (Done /\ NoBackendBranch) =>
        /\ response.status = 503
        /\ localCalls = <<>> /\ apiCalls = <<>>
        /\ resultFrom # "heuristic"

\* C2: for a non-blank request every backend failure (no client, transport
\* error, undecodable or ill-shaped reply) is absorbed: the caller never gets
\* a generic server error, and when the request's last backend call failed
\* the response is the degraded responder's, with model "heuristic" and
\* fallback_used true.
C2_FailuresAbsorbed ==
    (Done /\ NonBlank) =>
        /\ response.status # 500
        /\ (localCalls \o apiCalls # <<>> /\ Failed(FinalCall)) =>
               ResponseIs(heuristic_fallback(request.text), HEURISTIC_MODEL, TRUE)

\* C3: within one request each backend adapter is invoked at most once.
C3_AtMostOneCallPerBackend ==
    Len(localCalls) <= 1 /\ Len(apiCalls) <= 1

\* C4: every outcome returned for a non-blank text has confidence in [0, 1].
C4_ConfidenceInRange ==
    (Done /\ NonBlank /\ response.status = 200) =>
        (0 <= response.confidence /\ response.confidence <= 100)

\* C5: every outcome returned for a non-blank text has between 1 and 7 tags.
C5_TagsBetween1And7 ==
    (Done /\ NonBlank /\ response.status = 200) =>
        (1 <= Len(response.tags) /\ Len(response.tags) <= TAG_CAP)

\* C6: with force_api only the remote adapter is attempted; if it succeeds the
\* outcome is the remote result with fallback_used false; if it fails for any
\* reason the local adapter is never invoked and the outcome is the heuristic
\* result with model "heuristic" and fallback_used true.
C6_ForceApiOnlyRemote ==
    (NonBlank /\ request.force_api) =>
        /\ localCalls = <<>>
        /\ Done =>
            /\ Len(apiCalls) = 1
            /\ IF Succeeded(apiCalls[1])
               THEN ResponseIs(result, API_MODEL, FALSE) /\ resultFrom = "api"
                    /\ FromLatestReply
               ELSE ResponseIs(heuristic_fallback(request.text), HEURISTIC_MODEL, TRUE)

\* C7: with force_local and not force_api only the local adapter is attempted;
\* if it fails for any reason the remote adapter is never invoked and the
\* outcome is the heuristic result with fallback_used true; if it succeeds its
\* result is final whatever its confidence, with fallback_used false.
C7_ForceLocalOnlyLocal ==
    (NonBlank /\ request.force_local /\ ~request.force_api) =>
        /\ apiCalls = <<>>
        /\ Done =>
            /\ Len(localCalls) = 1
            /\ IF Succeeded(localCalls[1])
               THEN ResponseIs(result, LOCAL_MODEL, FALSE) /\ resultFrom = "local"
                    /\ FromLatestReply
               ELSE ResponseIs(heuristic_fallback(request.text), HEURISTIC_MODEL, TRUE)

\* C6 and C7 with the ill-shaped replies set aside: the forced backend is the
\* only one attempted, once; a result of the right types is returned under
\* its model with fallback_used false; a raised error gives the heuristic
\* result.
ForcedRoutingExceptIllShaped ==
    (Done /\ NonBlank /\ (request.force_api \/ request.force_local)) =>
        LET api == request.force_api
            mine == IF api THEN apiCalls ELSE localCalls
            other == IF api THEN localCalls ELSE apiCalls
        IN  /\ other = <<>>
            /\ Len(mine) = 1
            /\ Succeeded(mine[1]) =>
                   ResponseIs(result, IF api THEN API_MODEL ELSE LOCAL_MODEL, FALSE)
            /\ mine[1].outcome = "raised" =>
                   ResponseIs(heuristic_fallback(request.text), HEURISTIC_MODEL, TRUE)

\* C8: in the local-first branch, when the local adapter succeeds with
\* confidence >= 0.7 its result is returned as final with model = the local
\* model id and fallback_used false, and the remote adapter is never invoked.
C8_HighConfidenceLocalIsFinal ==
    (LocalFirstBranch /\ localCalls # <<>> /\ Succeeded(localCalls[1])
       /\ localCalls[1].confidence.n >= ESCALATION_THRESHOLD) =>
        /\ Done
        /\ apiCalls = <<>>
        /\ ResponseIs(result, LOCAL_MODEL, FALSE)
        /\ resultFrom = "local" /\ FromLatestReply

C8_Witness ==
    /\ Done /\ LocalFirstBranch /\ anthropic_client
    /\ Len(localCalls) = 1 /\ Succeeded(localCalls[1])
    /\ localCalls[1].confidence.n = ESCALATION_THRESHOLD
    /\ response.status = 200 /\ response.model = LOCAL_MODEL

\* C9: in the local-first branch, when the local adapter succeeds with
\* confidence < 0.7 and a remote adapter is configured, the remote adapter is
\* invoked and, when it succeeds, the outcome is the remote result (the local
\* one is discarded) with model = the remote model id and fallback_used true.
C9_LowConfidenceEscalates ==
    (LocalFirstBranch /\ anthropic_client /\ localCalls # <<>>
       /\ Succeeded(localCalls[1])
       /\ localCalls[1].confidence.n < ESCALATION_THRESHOLD) =>
        /\ apiCalls # <<>> /\ apiCalls[1].site = "api189"
        /\ (Done /\ Succeeded(apiCalls[1])) =>
               /\ ResponseIs(result, API_MODEL, TRUE)
               /\ resultFrom = "api" /\ FromLatestReply

C9_Witness ==
    /\ Done /\ LocalFirstBranch /\ anthropic_client
    /\ Succeeded(localCalls[1]) /\ localCalls[1].confidence.n < ESCALATION_THRESHOLD
    /\ Len(apiCalls) = 1 /\ Succeeded(apiCalls[1])
    /\ response.status = 200 /\ response.model = API_MODEL /\ response.fallback_used
    /\ response.confidence # localCalls[1].confidence.n

\* The local step of the local-first branch ended in an error: the adapter
\* raised (transport error, undecodable reply, reply that is no object), or
\* the comparison of its confidence with the threshold raised.
LocalErrored ==
    /\ localCalls # <<>>
    /\ \/ localCalls[1].outcome = "raised"
       \/ localCalls[1].outcome = "returned" /\ localCalls[1].confidence.kind # "num"

C12_BlankTextRejected ==
    (request.text.words = 0) =>
        /\ localCalls = <<>> /\ apiCalls = <<>>
        /\ result = None /\ resultFrom = "none"
        /\ pc \in {"start", "done"}
        /\ Done => response = [status |-> 400]

C12_Witness ==
    /\ Done
    /\ ~request.text.empty /\ request.text.words = 0
    /\ anthropic_client /\ local_client /\ request.force_api
    /\ response.status = 400

\* The model id of the first producer the request attempted (local calls
\* come before remote ones), "none" when no backend was attempted.
FirstAttempted ==
    IF localCalls # <<>> THEN LOCAL_MODEL
    ELSE IF apiCalls # <<>> THEN API_MODEL
    ELSE "none"

\* C13: in every returned outcome fallback_used is true whenever the producer
\* attributed in model differs from the first producer attempted.
C13_FallbackFlagWhenProducerDiffers ==
    (Done /\ response.status = 200) =>
        (response.model # FirstAttempted => response.fallback_used)

C13_Witness ==
    /\ Done /\ response.status = 200
    /\ FirstAttempted = LOCAL_MODEL
    /\ response.model = API_MODEL /\ response.fallback_used
    /\ localCalls[1].outcome = "raised"

\* C14: every returned outcome attributes exactly one of the local model id,
\* the remote model id and "heuristic" (never "none"), and the attributed
\* producer is the one whose output the returned fields are: a local
\* attribution carries the local reply and no remote call was made, a remote
\* attribution carries the reply of the last remote call, a heuristic one
\* carries the degraded responder's result.
C14_ProducerAttribution ==
    (Done /\ response.status = 200) =>
        /\ response.model \in {LOCAL_MODEL, API_MODEL, HEURISTIC_MODEL}
        /\ response.model = LOCAL_MODEL =>
               /\ apiCalls = <<>> /\ Len(localCalls) = 1
               /\ localCalls[1].outcome = "returned"
               /\ FromLatestReply
               /\ ResponseIs(result, LOCAL_MODEL, response.fallback_used)
        /\ response.model = API_MODEL =>
               /\ apiCalls # <<>> /\ Last(apiCalls).outcome = "returned"
               /\ FromLatestReply
               /\ ResponseIs(result, API_MODEL, response.fallback_used)
        /\ response.model = HEURISTIC_MODEL =>
               ResponseIs(heuristic_fallback(request.text), HEURISTIC_MODEL,
                          response.fallback_used)

\* An earlier backend succeeded, a later one failed: the local result was
\* low-confidence, both remote calls failed, the outcome is the heuristic's.
C14_Witness ==
    /\ Done /\ response.status = 200
    /\ Len(localCalls) = 1 /\ Succeeded(localCalls[1])
    /\ Len(apiCalls) = 2 /\ Last(apiCalls).outcome = "raised"
    /\ response.model = HEURISTIC_MODEL
    /\ response.confidence = HEURISTIC_CONFIDENCE

InFlight(calls) == \E i \in 1..Len(calls) : calls[i].outcome = "pending"

\* C15: in the local-first branch the remote call is never issued before the
\* local call's outcome is known, and the two backends are never in flight at
\* the same time.
C15_LocalThenRemoteSequential ==
    /\ ~(InFlight(localCalls) /\ InFlight(apiCalls))
    /\ (LocalFirstBranch /\ apiCalls # <<>>) =>
           (localCalls # <<>> /\ localCalls[1].outcome \in {"returned", "raised"})

C15_Witness ==
    /\ LocalFirstBranch
    /\ pc = "api189" /\ InFlight(apiCalls)
    /\ Len(localCalls) = 1 /\ localCalls[1].outcome = "returned"

\* How many steps the handler can still take: a bound on what is left of the
\* chain local call, escalation call, fallback call, response.
StepsLeft ==
    CASE pc = "start" -> 4
      [] pc = "local185" -> 3
      [] pc = "api189" -> 2
      [] pc \in {"api178", "local181", "api194", "api200"} -> 1
      [] pc = "done" -> 0

C16_EventuallyResponds == <>(pc = "done" /\ response # None)

Landings(calls) == SelectSeq(calls, LAMBDA c : c.outcome # "pending")

LatestLanded ==
    IF Landings(apiCalls) # <<>> THEN Last(Landings(apiCalls))
    ELSE Last(Landings(localCalls))

C19_ForceApiTakesPrecedence ==
    (NonBlank /\ request.force_api /\ request.force_local) =>
        /\ localCalls = <<>>
        /\ pc # "start" => (Len(apiCalls) = 1 /\ apiCalls[1].site = "api178")
        /\ Done => branch = "force_api"

C19_Witness ==
    /\ Done /\ NonBlank /\ request.force_api /\ request.force_local
    /\ local_client /\ anthropic_client
    /\ localCalls = <<>>
    /\ Len(apiCalls) = 1 /\ apiCalls[1].outcome = "raised"
    /\ response.model = HEURISTIC_MODEL

\* A texts list the service is to reject: empty, longer than 32, or holding
\* an empty or whitespace-only string.
BadTexts(texts) ==
    \/ Len(texts) = 0
    \/ Len(texts) > TEXTS_LIMIT
    \/ \E i \in 1..Len(texts) : texts[i] \in {"empty", "blank"}

\* C18: POST /embed/batch rejects with 422, without invoking the embedding
\* model, every request whose texts list is empty, has more than 32 entries,
\* or contains an empty or whitespace-only string (a service whose model is
\* not loaded yet may answer 503 instead).
C18_BadTextsRejected ==
    (embed_pc = "done" /\ BadTexts(embed_req.texts)) =>
        /\ embed_encodes = 0
        /\ embed_response.status \in {422, 503}

\* C20: for every input text the degraded responder returns confidence 0.3
\* and the tags uncategorized, transcript, unclassified, followed by "short"
\* exactly when the word count is < 100, by "long" exactly when it is > 1000,
\* and by nothing from 100 to 1000: 3 or 4 tags, never both short and long.
C20_HeuristicTags ==
    (pc = "done" /\ resultFrom = "heuristic") =>
        LET n == request.text.words
            tags == result["tags"].items
            base == <<"uncategorized", "transcript", "unclassified">>
        IN  /\ result["confidence"] = NumVal(30)
            /\ result["tags"].kind = "list"
            /\ Len(tags) \in {3, 4}
            /\ SubSeq(tags, 1, 3) = base
            /\ (n < 100) <=> (tags = Append(base, "short"))
            /\ (n > 1000) <=> (tags = Append(base, "long"))
            /\ (100 <= n /\ n <= 1000) <=> (tags = base)

C20_Witness ==
    /\ pc = "done" /\ resultFrom = "heuristic"
    /\ request.text.words = 1001
    /\ result["tags"].items = <<"uncategorized", "transcript", "unclassified", "long">>

\* C21: in the local-first branch, when the local adapter succeeds with
\* confidence < 0.7 and no remote adapter is configured, the low-confidence
\* local result is the final one, with model = the local model id and
\* fallback_used false: no remote call is made and the heuristic result does
\* not replace it.
C21_LowConfidenceWithoutRemoteIsFinal ==
    (Done /\ LocalFirstBranch /\ ~anthropic_client
       /\ Succeeded(localCalls[1])
       /\ localCalls[1].confidence.n < ESCALATION_THRESHOLD) =>
        /\ ResponseIs(result, LOCAL_MODEL, FALSE)
        /\ resultFrom = "local" /\ FromLatestReply
        /\ response.confidence = localCalls[1].confidence.n
        /\ Len(localCalls) = 1
        /\ apiCalls = <<>>

C21_Witness ==
    /\ Done /\ LocalFirstBranch /\ ~anthropic_client
    /\ Succeeded(localCalls[1])
    /\ localCalls[1].confidence.n < ESCALATION_THRESHOLD
    /\ localCalls[1].confidence.n # HEURISTIC_CONFIDENCE
    /\ response.status = 200 /\ response.model = LOCAL_MODEL
    /\ ~response.fallback_used

====
